---- MODULE Spec2Model ----
(***************************************************************************)
(* Model of package args (parser.go): a Parser holding the raw tokens and  *)
(* three result collections, the Parse scan, and the read accessors.       *)
(*                                                                         *)
(* A Go string is modelled as the sequence of its characters, so that the  *)
(* expression s[0] of the source is s[1] here and is only defined on a     *)
(* non-empty sequence; the empty string is <<>>.  A variadic parameter is  *)
(* the sequence of the values passed for it.  A run-time panic ends the    *)
(* program: pc becomes "panic" and no operation is enabled any more.       *)
(***************************************************************************)
EXTENDS Integers, Sequences, FiniteSets

\* ------------------------------------------------------------------ bounds
MaxLen == 4        \* longest token sequence handed to NewParser
MaxLateLen == 1    \* longest token sequence handed to Parse
MaxParses == 2     \* Parse calls on one Parser
MaxAlts == 1       \* alias names handed to an accessor

\* --------------------------------------------------------------- constants
FlagPrefix == "-"

\* The tokens the inputs are drawn from: "", "v", "42", "-a", "-1".
Tokens == { <<>>, <<"v">>, <<"4", "2">>, <<"-", "a">>, <<"-", "1">> }

\* The names the accessors are asked about: "-a", "-1", "v".
Names == { <<"-", "a">>, <<"-", "1">>, <<"v">> }

SeqsUpTo(S, n) == UNION { [1..k -> S] : k \in 0..n }

\* What a caller can pass for a variadic `args ...[]string`: nothing or one slice.
VarArgs(n) == { <<>> } \cup { <<s>> : s \in SeqsUpTo(Tokens, n) }

\* What a caller can pass for `alts ...string`.
AltLists == SeqsUpTo(Names, MaxAlts)

\* The indexes At is asked about, below, inside and above any positional list.
Indices == (0 - 1)..(MaxLen + 1)

VARIABLES rawArgs, positional, options, args, pc, parses, call, ret

vars == <<rawArgs, positional, options, args, pc, parses, call, ret>>

NoRet == [kind |-> "none"]
PanicRet == [kind |-> "panic"]

\* ------------------------------------------------------------- NewParser
NewParserRawArgs(a) == IF Len(a) > 0 THEN a[1] ELSE <<>>

Init ==
    \E a \in VarArgs(MaxLen) :
        /\ rawArgs = NewParserRawArgs(a)
        /\ positional = <<>>
        /\ options = <<>>
        /\ args = <<>>
        /\ pc = "ready"
        /\ parses = 0
        /\ call = [op |-> "NewParser", args |-> a]
        /\ ret = NoRet

\* ------------------------------------------------------------------ Parse
\* Line 120-122: the slice passed to Parse is taken only when none is held.
\* Variant: a slice passed to Parse always replaces the one held.
ParseInputAlways(a, raw) == IF Len(a) > 0 THEN a[1] ELSE raw

ParseInput(a, raw) == IF Len(a) > 0 /\ Len(raw) = 0 THEN a[1] ELSE raw

\* s[0] of the source panics (index out of range) on the empty string.
IndexPanics(s) == Len(s) = 0

\* The loop of lines 124-145 from (1-based) position k on; st carries the
\* three collections and whether the loop has panicked.
RECURSIVE Scan(_, _, _)
Scan(raw, k, st) ==
    IF k > Len(raw) THEN st
    ELSE
      LET arg == raw[k]
          nonFlag == arg[1] # FlagPrefix
      IN
      IF arg = <<>> THEN Scan(raw, k + 1, st)
      ELSE IF nonFlag /\ k - 2 <= 0
        THEN Scan(raw, k + 1, [st EXCEPT !.positional = Append(@, arg)])
      ELSE IF nonFlag /\ k - 2 > 0 /\ IndexPanics(raw[k - 1])
        THEN [st EXCEPT !.panic = TRUE]
      ELSE IF nonFlag /\ k - 2 > 0 /\ raw[k - 1][1] # FlagPrefix
        THEN Scan(raw, k + 1, [st EXCEPT !.positional = Append(@, arg)])
      ELSE IF ~nonFlag /\ k + 1 <= Len(raw) /\ IndexPanics(raw[k + 1])
        THEN [st EXCEPT !.panic = TRUE]
      ELSE IF ~nonFlag /\ k + 1 <= Len(raw) /\ raw[k + 1][1] # FlagPrefix
        THEN Scan(raw, k + 2,
                  [st EXCEPT !.args = Append(@, [k |-> arg, v |-> raw[k + 1]])])
      ELSE Scan(raw, k + 1, [st EXCEPT !.options = Append(@, arg)])

Parse(a) ==
    /\ pc = "ready"
    /\ parses < MaxParses
    /\ LET raw == ParseInput(a, rawArgs)
           st == Scan(raw, 1, [positional |-> positional, options |-> options,
                               args |-> args, panic |-> FALSE])
       IN /\ rawArgs' = raw
          /\ positional' = st.positional
          /\ options' = st.options
          /\ args' = st.args
          /\ pc' = IF st.panic THEN "panic" ELSE "ready"
          /\ ret' = IF st.panic THEN PanicRet ELSE [kind |-> "error", err |-> "nil"]
    /\ parses' = parses + 1
    /\ call' = [op |-> "Parse", args |-> a]

ParseCall == \E a \in VarArgs(MaxLateLen) : Parse(a)

\* parser.Parse() with no slice, the call of the documented usage.
ParseStored == Parse(<<>>)

\* --------------------------------------------------------------------- At
\* Lines 166-171.  p.positional[index] panics on a negative index.
AtPanics(index) == index < Len(positional) /\ index < 0

AtResult(index) ==
    IF index < Len(positional)
    THEN [kind |-> "string", val |-> positional[index + 1], found |-> TRUE]
    ELSE [kind |-> "string", val |-> <<>>, found |-> FALSE]

At(index) ==
    /\ pc = "ready"
    /\ call' = [op |-> "At", index |-> index]
    /\ IF AtPanics(index)
       THEN pc' = "panic" /\ ret' = PanicRet
       ELSE pc' = pc /\ ret' = AtResult(index)
    /\ UNCHANGED <<rawArgs, positional, options, args, parses>>

AtCall == \E index \in Indices : At(index)

\* -------------------------------------------------------------- HasOption
\* names := append(alts, name)
NamesOf(name, alts) == Append(alts, name)

\* Lines 195-202: is any name equal to opts[i..]?
RECURSIVE AnyName(_, _, _)
AnyName(opt, names, j) ==
    IF j > Len(names) THEN FALSE
    ELSE IF opt = names[j] THEN TRUE
    ELSE AnyName(opt, names, j + 1)

RECURSIVE HasOptionFrom(_, _, _)
HasOptionFrom(opts, names, i) ==
    IF i > Len(opts) THEN FALSE
    ELSE IF AnyName(opts[i], names, 1) THEN TRUE
    ELSE HasOptionFrom(opts, names, i + 1)

\* Variant: the aliases are not consulted.
HasOptionPrimaryOnly(option, alts) == HasOptionFrom(options, <<option>>, 1)

HasOption(option, alts) == HasOptionFrom(options, NamesOf(option, alts), 1)

HasOptionCall ==
    \E name \in Names, alts \in AltLists :
        /\ pc = "ready"
        /\ call' = [op |-> "HasOption", name |-> name, alts |-> alts]
        /\ ret' = [kind |-> "bool", val |-> HasOption(name, alts)]
        /\ UNCHANGED <<rawArgs, positional, options, args, pc, parses>>

\* -------------------------------------------------------------- firstPair
\* Lines 371-376; every stored map has exactly one entry.
firstPair(m) == <<m.k, m.v>>

\* -------------------------------------------------------------------- Get
\* Lines 231-238: for each name in turn, every pair from the left.
RECURSIVE GetInner(_, _, _, _)
GetInner(n, pairs, i, acc) ==
    IF i > Len(pairs) THEN acc
    ELSE IF firstPair(pairs[i])[1] = n
         THEN GetInner(n, pairs, i + 1, Append(acc, firstPair(pairs[i])[2]))
         ELSE GetInner(n, pairs, i + 1, acc)

RECURSIVE GetOuter(_, _, _, _)
GetOuter(names, pairs, j, acc) ==
    IF j > Len(names) THEN acc
    ELSE GetOuter(names, pairs, j + 1, GetInner(names[j], pairs, 1, acc))

Get(name, alts) == GetOuter(NamesOf(name, alts), args, 1, <<>>)

GetCall ==
    \E name \in Names, alts \in AltLists :
        /\ pc = "ready"
        /\ call' = [op |-> "Get", name |-> name, alts |-> alts]
        /\ ret' = [kind |-> "strings", val |-> Get(name, alts)]
        /\ UNCHANGED <<rawArgs, positional, options, args, pc, parses>>

\* ------------------------------------------------- GetString/LookupString
\* Index of the first name equal to the key k, 0 when there is none.
RECURSIVE MatchName(_, _, _)
MatchName(k, names, j) ==
    IF j > Len(names) THEN 0
    ELSE IF k = names[j] THEN j
    ELSE MatchName(k, names, j + 1)

\* Lines 259-267: pairs from the right, the value of the first match or "".
RECURSIVE GetStringFrom(_, _, _)
GetStringFrom(names, pairs, i) ==
    IF i < 1 THEN <<>>
    ELSE IF MatchName(firstPair(pairs[i])[1], names, 1) # 0
         THEN firstPair(pairs[i])[2]
         ELSE GetStringFrom(names, pairs, i - 1)

\* Variant: the pairs are searched from the left.
RECURSIVE GetStringLeftFrom(_, _, _)
GetStringLeftFrom(names, pairs, i) ==
    IF i > Len(pairs) THEN <<>>
    ELSE IF MatchName(firstPair(pairs[i])[1], names, 1) # 0
         THEN firstPair(pairs[i])[2]
         ELSE GetStringLeftFrom(names, pairs, i + 1)

GetStringLeftmost(name, alts) == GetStringLeftFrom(NamesOf(name, alts), args, 1)

GetString(name, alts) == GetStringFrom(NamesOf(name, alts), args, Len(args))

LookupString(name, alts) ==
    LET v == GetString(name, alts)
    IN [kind |-> "string", val |-> v, found |-> v # <<>>]

LookupStringCall ==
    \E name \in Names, alts \in AltLists :
        /\ pc = "ready"
        /\ call' = [op |-> "LookupString", name |-> name, alts |-> alts]
        /\ ret' = LookupString(name, alts)
        /\ UNCHANGED <<rawArgs, positional, options, args, pc, parses>>

\* ----------------------------------------------------------- strconv.Atoi
\* The text-to-int conversion GetInt calls (line 326): an optional sign, then
\* one or more decimal digits; anything else is an error.  Every string of
\* the model is far shorter than the 19 characters at which a value can
\* leave the range of int.
DigitChars == <<"0", "1", "2", "3", "4", "5", "6", "7", "8", "9">>

IsDigit(c) == \E d \in DOMAIN DigitChars : DigitChars[d] = c

DigitVal(c) == (CHOOSE d \in DOMAIN DigitChars : DigitChars[d] = c) - 1

AtoiError == [ok |-> FALSE, val |-> 0]

RECURSIVE AtoiDigits(_, _, _)
AtoiDigits(s, i, n) ==
    IF i > Len(s) THEN [ok |-> TRUE, val |-> n]
    ELSE IF ~IsDigit(s[i]) THEN AtoiError
    ELSE AtoiDigits(s, i + 1, n * 10 + DigitVal(s[i]))

Atoi(s0) ==
    IF Len(s0) = 0 THEN AtoiError
    ELSE LET s == IF s0[1] = "-" \/ s0[1] = "+" THEN Tail(s0) ELSE s0
             r == AtoiDigits(s, 1, 0)
         IN IF Len(s) < 1 THEN AtoiError
            ELSE IF ~r.ok THEN AtoiError
            ELSE IF s0[1] = "-" THEN [ok |-> TRUE, val |-> 0 - r.val]
            ELSE r

\* ------------------------------------------------------- GetInt/LookupInt
\* The value GetInt returns when no pair matches (line 334).
NotFoundInt == -1

\* Lines 322-334: pairs from the right; the first match is converted, and a
\* value that does not convert panics.
RECURSIVE GetIntFrom(_, _, _)
GetIntFrom(names, pairs, i) ==
    IF i < 1 THEN [panic |-> FALSE, val |-> NotFoundInt]
    ELSE IF MatchName(firstPair(pairs[i])[1], names, 1) # 0
         THEN LET r == Atoi(firstPair(pairs[i])[2])
              IN IF ~r.ok THEN [panic |-> TRUE, val |-> 0]
                 ELSE [panic |-> FALSE, val |-> r.val]
         ELSE GetIntFrom(names, pairs, i - 1)

\* Variant: the pairs are searched from the left.
RECURSIVE GetIntLeftFrom(_, _, _)
GetIntLeftFrom(names, pairs, i) ==
    IF i > Len(pairs) THEN [panic |-> FALSE, val |-> NotFoundInt]
    ELSE IF MatchName(firstPair(pairs[i])[1], names, 1) # 0
         THEN LET r == Atoi(firstPair(pairs[i])[2])
              IN IF ~r.ok THEN [panic |-> TRUE, val |-> 0]
                 ELSE [panic |-> FALSE, val |-> r.val]
         ELSE GetIntLeftFrom(names, pairs, i + 1)

GetIntLeftmost(name, alts) == GetIntLeftFrom(NamesOf(name, alts), args, 1)

GetInt(name, alts) == GetIntFrom(NamesOf(name, alts), args, Len(args))

LookupInt(name, alts) ==
    LET g == GetInt(name, alts)
    IN IF g.panic THEN PanicRet
       ELSE [kind |-> "int", val |-> g.val, found |-> g.val # NotFoundInt]

LookupIntCall ==
    \E name \in Names, alts \in AltLists :
        /\ pc = "ready"
        /\ call' = [op |-> "LookupInt", name |-> name, alts |-> alts]
        /\ ret' = LookupInt(name, alts)
        /\ pc' = IF LookupInt(name, alts) = PanicRet THEN "panic" ELSE pc
        /\ UNCHANGED <<rawArgs, positional, options, args, parses>>

\* --------------------------------------------------------- specifications
\* Construction followed by Parse calls, with or without a slice.
Next == ParseCall

Spec == Init /\ [][Next]_vars

\* Construction, parser.Parse() and one kind of read accessor.
NextAt == ParseStored \/ AtCall

SpecAt == Init /\ [][NextAt]_vars

NextHasOption == ParseStored \/ HasOptionCall

SpecHasOption == Init /\ [][NextHasOption]_vars

NextGet == ParseStored \/ GetCall

SpecGet == Init /\ [][NextGet]_vars

NextLookupString == ParseStored \/ LookupStringCall

SpecLookupString == Init /\ [][NextLookupString]_vars

NextLookupInt == ParseStored \/ LookupIntCall

SpecLookupInt == Init /\ [][NextLookupInt]_vars

\* ------------------------------------------------- vocabulary of the claims
\* A token is flag-like iff its first character is the flag marker.
IsFlagLike(t) == Len(t) > 0 /\ t[1] = FlagPrefix

NonEmptyCount(s) == Cardinality({i \in DOMAIN s : s[i] # <<>>})

IndexSeq(n) == [i \in 1..n |-> i]

\* The flag-like tokens that have a next token which is not flag-like, each
\* paired with that next token, in input order.
PairsOf(s) ==
    LET Keyed(i) == IsFlagLike(s[i]) /\ i + 1 <= Len(s) /\ ~IsFlagLike(s[i + 1])
        sel == SelectSeq(IndexSeq(Len(s)), Keyed)
    IN [j \in 1..Len(sel) |-> [k |-> s[sel[j]], v |-> s[sel[j] + 1]]]

\* The flag-like tokens that are last or are followed by a flag-like token.
OptionsOf(s) ==
    LET Alone(i) == IsFlagLike(s[i]) /\ (i = Len(s) \/ IsFlagLike(s[i + 1]))
        sel == SelectSeq(IndexSeq(Len(s)), Alone)
    IN [j \in 1..Len(sel) |-> s[sel[j]]]

\* The non-empty tokens that are not flag-like and are first or follow a
\* token that is not flag-like.
PositionalOf(s) ==
    LET Free(i) == s[i] # <<>> /\ ~IsFlagLike(s[i])
                   /\ (i = 1 \/ ~IsFlagLike(s[i - 1]))
        sel == SelectSeq(IndexSeq(Len(s)), Free)
    IN [j \in 1..Len(sel) |-> s[sel[j]]]

\* The names an accessor call asks about, as a set.
NameSet(c) == {c.name} \cup {c.alts[j] : j \in DOMAIN c.alts}

\* The positions of the stored pairs whose key is one of the names asked.
Matching(c) == {i \in DOMAIN args : args[i].k \in NameSet(c)}

Last(S) == CHOOSE i \in S : \A j \in S : j <= i

AfterFirstParse == call.op = "Parse" /\ parses = 1

\* Valid base-10 integer text: an optional sign, then one or more digits.
IntBody(v) == IF Len(v) > 0 /\ v[1] \in {"+", "-"} THEN Tail(v) ELSE v

IsIntText(v) == Len(IntBody(v)) > 0 /\ \A i \in DOMAIN IntBody(v) : IsDigit(IntBody(v)[i])

RECURSIVE Pow10(_)
Pow10(n) == IF n = 0 THEN 1 ELSE 10 * Pow10(n - 1)

RECURSIVE SumUpTo(_, _)
SumUpTo(b, n) ==
    IF n = 0 THEN 0
    ELSE SumUpTo(b, n - 1) + DigitVal(b[n]) * Pow10(Len(b) - n)

IntValue(v) == IF v[1] = "-" THEN 0 - SumUpTo(IntBody(v), Len(IntBody(v)))
               ELSE SumUpTo(IntBody(v), Len(IntBody(v)))

\* ----------------------------------------------------------------- claims

\* C1: after NewParser(tokens) and one Parse, positional + options + twice the
\* argument pairs count exactly the non-empty tokens of the input, for every
\* input, empty-string tokens included.
C1_EveryTokenAccounted ==
    AfterFirstParse =>
        Len(positional) + Len(options) + 2 * Len(args) = NonEmptyCount(rawArgs)

\* C2: Parse never faults: for every token sequence it raises no panic and
\* returns a nil error, and no empty-string token reaches any collection.
C2_ParseNeverFaults ==
    call.op = "Parse" =>
        /\ pc # "panic"
        /\ ret = [kind |-> "error", err |-> "nil"]
        /\ \A i \in DOMAIN positional : positional[i] # <<>>
        /\ \A i \in DOMAIN options : options[i] # <<>>
        /\ \A i \in DOMAIN args : args[i].k # <<>>

\* C3: a flag-like token becomes the key of a pair with the next token iff a
\* next token exists and is not flag-like, and a standalone option otherwise;
\* so the pairs and the options after a parse are exactly those.
C3_FlagPairOrOption ==
    AfterFirstParse =>
        /\ args = PairsOf(rawArgs)
        /\ options = OptionsOf(rawArgs)

\* C4: LookupString(name, alts...) returns the value of the rightmost pair
\* whose key is the name or an alias, whichever of them is the primary, with
\* found = true; and ("", false) exactly when no pair key matches.
C4_LookupStringRightmost ==
    call.op = "LookupString" =>
        IF Matching(call) = {}
        THEN ret = [kind |-> "string", val |-> <<>>, found |-> FALSE]
        ELSE ret = [kind |-> "string", val |-> args[Last(Matching(call))].v,
                    found |-> TRUE]

\* C4 witness: two pairs with different keys and values match, the rightmost
\* through an alias, and its value is the one returned.
C4_Witness ==
    /\ call.op = "LookupString"
    /\ \E i, j \in Matching(call) :
          /\ i < j
          /\ j = Last(Matching(call))
          /\ args[i].k = call.name
          /\ args[j].k # call.name
          /\ args[i].v # args[j].v
          /\ ret.val = args[j].v
          /\ ret.found

\* C5: Get(name, alts...) returns the values of all pairs whose key is the
\* name or an alias, each once, in the input order of the pairs.
C5_GetInputOrder ==
    call.op = "Get" =>
        LET Hit(i) == i \in Matching(call)
            sel == SelectSeq(IndexSeq(Len(args)), Hit)
        IN ret = [kind |-> "strings", val |-> [j \in 1..Len(sel) |-> args[sel[j]].v]]

\* C6: a further Parse call on the same instance with the same token sequence
\* leaves the positional, option and pair collections as they were.
C6_ReparseIdempotent ==
    [][(call'.op = "Parse" /\ parses >= 1 /\ rawArgs' = rawArgs) =>
          (positional' = positional /\ options' = options /\ args' = args)]_vars

\* C7: the first Parse classifies the constructor's sequence when that is
\* non-empty, ignoring any sequence passed to Parse; otherwise it classifies
\* the sequence passed to Parse; with neither, the collections stay empty.
C7_FirstSuppliedWins ==
    [][(call'.op = "Parse" /\ parses = 0) =>
          LET eff == IF Len(rawArgs) > 0 THEN rawArgs
                     ELSE IF Len(call'.args) > 0 THEN call'.args[1]
                     ELSE <<>>
          IN /\ rawArgs' = eff
             /\ pc' = "ready" =>
                   /\ positional' = PositionalOf(eff)
                   /\ options' = OptionsOf(eff)
                   /\ args' = PairsOf(eff)]_vars

\* C7 witness: a parse that was handed a non-empty sequence, ignored it and
\* classified the different, non-empty sequence of the constructor.
C7_Witness ==
    /\ AfterFirstParse
    /\ pc = "ready"
    /\ Len(call.args) = 1
    /\ Len(call.args[1]) > 0
    /\ Len(rawArgs) > 0
    /\ rawArgs # call.args[1]
    /\ positional = PositionalOf(rawArgs)
    /\ Len(positional) + Len(options) + Len(args) > 0

\* C8: LookupInt(name, alts...) looks at the rightmost pair whose key is the
\* name or an alias: none gives found = false; a value that is integer text
\* gives that integer with found = true; any other value panics.
C8_LookupIntRightmost ==
    call.op = "LookupInt" =>
        IF Matching(call) = {}
        THEN pc = "ready" /\ ret = [kind |-> "int", val |-> 0 - 1, found |-> FALSE]
        ELSE LET v == args[Last(Matching(call))].v
             IN IF IsIntText(v)
                THEN pc = "ready"
                     /\ ret = [kind |-> "int", val |-> IntValue(v), found |-> TRUE]
                ELSE pc = "panic" /\ ret = PanicRet

\* C8 witness: an earlier matching pair holds text that is no integer, the
\* rightmost one holds an integer, and that integer is returned as found.
C8_Witness ==
    /\ call.op = "LookupInt"
    /\ \E i, j \in Matching(call) :
          /\ i < j
          /\ j = Last(Matching(call))
          /\ ~IsIntText(args[i].v)
          /\ IsIntText(args[j].v)
          /\ ret = [kind |-> "int", val |-> IntValue(args[j].v), found |-> TRUE]

\* C9: At(index) returns (positional[index], true) for 0 <= index <
\* len(positional) and ("", false) for every other index, never panicking.
C9_AtNeverPanics ==
    call.op = "At" =>
        /\ pc # "panic"
        /\ ret = IF 0 <= call.index /\ call.index < Len(positional)
                 THEN [kind |-> "string", val |-> positional[call.index + 1],
                       found |-> TRUE]
                 ELSE [kind |-> "string", val |-> <<>>, found |-> FALSE]

\* C10: HasOption(name, alts...) is true iff the name or an alias equals some
\* entry of the option collection, wherever it stands; keys of pairs and
\* positionals do not count.
C10_HasOptionIffListed ==
    call.op = "HasOption" =>
        ret = [kind |-> "bool",
               val |-> \E i \in DOMAIN options : options[i] \in NameSet(call)]

\* C10 witness: the primary name is only the key of a pair, an alias is the
\* last of the tokens and an option, and the answer is true.
C10_Witness ==
    /\ call.op = "HasOption"
    /\ ret.val = TRUE
    /\ \A i \in DOMAIN options : options[i] # call.name
    /\ \E i \in DOMAIN args : args[i].k = call.name
    /\ Len(positional) > 0
    /\ rawArgs[Len(rawArgs)] \in NameSet(call)
    /\ options[Len(options)] = rawArgs[Len(rawArgs)]

\* C11: for every input, the non-empty tokens Parse records as positional are
\* exactly those that are not flag-like and are first or follow a token that
\* is not flag-like; a non-flag token after a flag-like one is that flag's
\* value and is recorded neither as positional nor as option.
C11_PositionalByPredecessor ==
    AfterFirstParse =>
        /\ positional = PositionalOf(rawArgs)
        /\ \A i \in DOMAIN options : IsFlagLike(options[i])

====
